---------------------------- MODULE Spec2Model ----------------------------
(***************************************************************************)
(* A model of src/main.cpp: the tutorial program that seeds the C library  *)
(* generator with the clock, prints REPETITIONS unranged draws and then    *)
(* REPETITIONS draws mapped into [200, 300] by rand_range.                 *)
(*                                                                         *)
(* Two specifications are given.  Spec is one run of main().  RangeSpec    *)
(* calls rand_range(low, high) once with arguments and a generator state   *)
(* drawn from bounded sets, so that properties of the function can be      *)
(* checked outside the single interval main() uses.                        *)
(*                                                                         *)
(* int is modelled as a two's complement integer of IntBits bits; the      *)
(* program's int has 32.  IntBits is the smallest width in which the       *)
(* program's literals 200 and 300 are int values.                          *)
(***************************************************************************)
EXTENDS Integers, Sequences, FiniteSets

VARIABLES pc, i, random, low, high, g, log, out

vars == <<pc, i, random, low, high, g, log, out>>

-----------------------------------------------------------------------------
(* Bounds of the model *)

\* width of int in bits
IntBits == 10

\* how far from INT_MIN, 0 and INT_MAX the arguments tried by RangeSpec go
EdgeWindow == 2

-----------------------------------------------------------------------------
(* The machine's integers *)

REPETITIONS == 10

INT_MAX == 2^(IntBits - 1) - 1

INT_MIN == -(2^(IntBits - 1))

\* "RAND_MAX is 2,147,483,647": the largest int
RAND_MAX == INT_MAX

IntValues == INT_MIN..INT_MAX

\* what is left of a value stored in an int that cannot represent it
WrapInt(x) == ((x - INT_MIN) % (2^IntBits)) + INT_MIN

Abs(x) == IF x < 0 THEN -x ELSE x

\* a % b of C++ for b # 0: the quotient is truncated towards zero, so the
\* remainder has the sign of a
TruncRem(a, b) == IF a >= 0 THEN a % Abs(b) ELSE -((-a) % Abs(b))

-----------------------------------------------------------------------------
(* The library generator: srand, rand, time *)

\* the values time(0) may return: a long, which may exceed INT_MAX
Times == {0, 1, INT_MAX, INT_MAX + 2}

\* int(time(0)): the long narrowed to int
IntOfTime(t) == WrapInt(t)

\* srand(seed): the int argument converted to unsigned becomes the seed
srand(seed) == seed % (2^IntBits)

\* the seed before any srand: "the seed defaults to a starting value of 0";
\* the C library starts as if srand(1) had been called
DefaultSeeds == {0, 1}

\* rand(): a fixed function of the seed, in 0..RAND_MAX; the number returned
\* is the next seed.  A linear congruential step stands for the "series of
\* complicated and obscure mathematical operations".
rand(seed) == (5 * seed + 3) % (RAND_MAX + 1)

\* the k-th number rand() returns after the seed was set to seed
RECURSIVE NthRand(_, _)
NthRand(seed, k) == IF k = 1 THEN rand(seed) ELSE rand(NthRand(seed, k - 1))

-----------------------------------------------------------------------------
(* rand_range *)

Outcome(kind, val) == [kind |-> kind, val |-> val]

\* Division by zero is undefined.  A build for a machine whose divide
\* instruction traps raises SIGFPE; a build for a machine whose divide
\* instruction yields 0 computes r - 0 * 0 = r and goes on.
DivideByZero(r, lo) == {Outcome("sigfpe", 0), Outcome("value", WrapInt(r + lo))}

\* (rand() % divisor) + low, where steps are the exact values of the
\* subexpressions that lead to the divisor, in the order they are computed.
\* Signed overflow is undefined: the build either wraps and goes on or, when
\* built to trap on overflow, aborts.
RemainderPlusLow(r, steps, lo) ==
    LET divisor == WrapInt(steps[Len(steps)])
        sum == TruncRem(r, divisor) + lo
        overflow == \/ \E k \in 1..Len(steps) : steps[k] \notin IntValues
                    \/ divisor # 0 /\ sum \notin IntValues
    IN  (IF overflow THEN {Outcome("abort", 0)} ELSE {})
          \cup (IF divisor = 0 THEN DivideByZero(r, lo)
                ELSE {Outcome("value", WrapInt(sum))})

\* return (rand() % (high - low)) + low;
rand_range_NoPlusOne(lo, hi, r) == RemainderPlusLow(r, <<hi - lo>>, lo)

\* return (rand() % (high + 1)) + low;
rand_range_ModHigh(lo, hi, r) == RemainderPlusLow(r, <<hi + 1>>, lo)

\* return (rand() % (high + 1 - low)) + low;
rand_range_PlusFirst(lo, hi, r) ==
    RemainderPlusLow(r, <<hi + 1, WrapInt(hi + 1) - lo>>, lo)

\* What the call rand_range(lo, hi) can do when its rand() returns r:
\*   return (rand() % (high - low + 1)) + low;
rand_range(lo, hi, r) ==
    RemainderPlusLow(r, <<hi - lo, WrapInt(hi - lo) + 1>>, lo)

-----------------------------------------------------------------------------
(* Histories *)

\* log: the library calls made so far, in order; out: the lines written
Event(op, val) == [op |-> op, val |-> val]

Line(kind, n, a, b) == [kind |-> kind, n |-> n, a |-> a, b |-> b]

BlankLine == Line("blank", 0, 0, 0)

ValueLine(v) == Line("value", v, 0, 0)

\* "Displaying " n " random numbers between " a " and " b
HeaderLine(n, a, b) == Line("header", n, a, b)

-----------------------------------------------------------------------------
(* main *)

\* int random; int low; int high; are not initialised
Indeterminate == {INT_MIN, 0}

Init ==
    /\ pc = "srand"
    /\ i = 0
    /\ random \in Indeterminate
    /\ low \in Indeterminate
    /\ high \in Indeterminate
    /\ g \in DefaultSeeds
    /\ log = << >>
    /\ out = << >>

\* srand(int(time(0)));
SeedGenerator ==
    /\ pc = "srand"
    /\ \E t \in Times :
          /\ g' = srand(IntOfTime(t))
          /\ log' = Append(log, Event("srand", IntOfTime(t)))
    /\ pc' = "header1"
    /\ UNCHANGED <<i, random, low, high, out>>

\* cout << endl << "Displaying " << REPETITIONS
\*      << " random numbers between 0 and " << RAND_MAX << endl;
OutputHeader1 ==
    /\ pc = "header1"
    /\ out' = out \o <<BlankLine, HeaderLine(REPETITIONS, 0, RAND_MAX)>>
    /\ pc' = "for1_init"
    /\ UNCHANGED <<i, random, low, high, g, log>>

\* for (int i = 1; ...
Loop1Init ==
    /\ pc = "for1_init"
    /\ i' = 1
    /\ pc' = "for1_test"
    /\ UNCHANGED <<random, low, high, g, log, out>>

\* ... i < REPETITIONS; ...
Loop1Test_Strict ==
    /\ pc = "for1_test"
    /\ pc' = IF i < REPETITIONS THEN "rand" ELSE "assign"
    /\ UNCHANGED <<i, random, low, high, g, log, out>>

\* ... i <= REPETITIONS; ...
Loop1Test ==
    /\ pc = "for1_test"
    /\ pc' = IF i <= REPETITIONS THEN "rand" ELSE "assign"
    /\ UNCHANGED <<i, random, low, high, g, log, out>>

\* srand(int(time(0))); random = rand();
DrawUnranged_Reseeding ==
    /\ pc = "rand"
    /\ \E t \in Times :
          /\ random' = rand(srand(IntOfTime(t)))
          /\ g' = rand(srand(IntOfTime(t)))
          /\ log' = log \o <<Event("srand", IntOfTime(t)),
                             Event("rand", rand(srand(IntOfTime(t))))>>
    /\ pc' = "output1"
    /\ UNCHANGED <<i, low, high, out>>

\* random = rand();
DrawUnranged ==
    /\ pc = "rand"
    /\ random' = rand(g)
    /\ g' = rand(g)
    /\ log' = Append(log, Event("rand", rand(g)))
    /\ pc' = "output1"
    /\ UNCHANGED <<i, low, high, out>>

\* cout << random << endl;
OutputUnranged ==
    /\ pc = "output1"
    /\ out' = Append(out, ValueLine(random))
    /\ pc' = "for1_incr"
    /\ UNCHANGED <<i, random, low, high, g, log>>

\* ... i++)
Loop1Incr ==
    /\ pc = "for1_incr"
    /\ i' = WrapInt(i + 1)
    /\ pc' = "for1_test"
    /\ UNCHANGED <<random, low, high, g, log, out>>

\* low = 200; high = 300;
SetInterval ==
    /\ pc = "assign"
    /\ low' = 200
    /\ high' = 300
    /\ pc' = "header2"
    /\ UNCHANGED <<i, random, g, log, out>>

\* cout << "Displaying " << REPETITIONS << " random numbers between "
\*      << low << " and " << high << endl;
OutputHeader2_NoBlankLine ==
    /\ pc = "header2"
    /\ out' = Append(out, HeaderLine(REPETITIONS, low, high))
    /\ pc' = "for2_init"
    /\ UNCHANGED <<i, random, low, high, g, log>>

\* cout << endl << "Displaying " << REPETITIONS << " random numbers between "
\*      << low << " and " << high << endl;
OutputHeader2 ==
    /\ pc = "header2"
    /\ out' = out \o <<BlankLine, HeaderLine(REPETITIONS, low, high)>>
    /\ pc' = "for2_init"
    /\ UNCHANGED <<i, random, low, high, g, log>>

Loop2Init ==
    /\ pc = "for2_init"
    /\ i' = 1
    /\ pc' = "for2_test"
    /\ UNCHANGED <<random, low, high, g, log, out>>

Loop2Test ==
    /\ pc = "for2_test"
    /\ pc' = IF i <= REPETITIONS THEN "rand_range" ELSE "done"
    /\ UNCHANGED <<i, random, low, high, g, log, out>>

\* The call rand_range(lo, hi): one rand(), then the arithmetic.  A call that
\* returns stores its value in random and goes on at next; one that does not
\* ends the process in the state named after what ended it.
CallRandRange(lo, hi, next) ==
    /\ g' = rand(g)
    /\ log' = Append(log, Event("rand_range", rand(g)))
    /\ \E o \in rand_range(lo, hi, rand(g)) :
          /\ random' = IF o.kind = "value" THEN o.val ELSE random
          /\ pc' = IF o.kind = "value" THEN next ELSE o.kind
    /\ UNCHANGED <<i, low, high, out>>

\* random = rand_range(low, high);
DrawRanged ==
    /\ pc = "rand_range"
    /\ CallRandRange(low, high, "output2")

\* cout << random << endl;
OutputRanged ==
    /\ pc = "output2"
    /\ out' = Append(out, ValueLine(random))
    /\ pc' = "for2_incr"
    /\ UNCHANGED <<i, random, low, high, g, log>>

Loop2Incr ==
    /\ pc = "for2_incr"
    /\ i' = WrapInt(i + 1)
    /\ pc' = "for2_test"
    /\ UNCHANGED <<random, low, high, g, log, out>>

Next ==
    \/ SeedGenerator
    \/ OutputHeader1
    \/ Loop1Init
    \/ Loop1Test
    \/ DrawUnranged
    \/ OutputUnranged
    \/ Loop1Incr
    \/ SetInterval
    \/ OutputHeader2
    \/ Loop2Init
    \/ Loop2Test
    \/ DrawRanged
    \/ OutputRanged
    \/ Loop2Incr

Spec == Init /\ [][Next]_vars

\* main() is one sequential thread: a statement that can run does run
FairSpec == Spec /\ WF_vars(Next)

-----------------------------------------------------------------------------
(* rand_range called on its own *)

\* the int arguments tried: around INT_MIN, 0 and INT_MAX, and the intervals
\* of the tutorial (20..30) and of main (200..300)
RangeArgs ==
    (INT_MIN..(INT_MIN + EdgeWindow))
      \cup ((-EdgeWindow)..EdgeWindow)
      \cup ((INT_MAX - EdgeWindow)..INT_MAX)
      \cup {20, 30, 200, 300}

\* srand() has been called and any number of draws made: the seed is any
\* number rand() can have returned
RangeInit ==
    /\ pc = "call"
    /\ i = 0
    /\ random = 0
    /\ low \in RangeArgs
    /\ high \in RangeArgs
    /\ g \in 0..RAND_MAX
    /\ log = << >>
    /\ out = << >>

RangeCall ==
    /\ pc = "call"
    /\ CallRandRange(low, high, "returned")

RangeNext == RangeCall

RangeSpec == RangeInit /\ [][RangeNext]_vars

-----------------------------------------------------------------------------
(* Readings of the histories *)

\* the number rand() returned inside the one call RangeSpec makes
Drawn == log[Len(log)].val

Called == pc # "call"

\* high - low + 1 in the integers
TrueSize == high - low + 1

\* high - low + 1 as the int arithmetic of the machine leaves it
IntSize == WrapInt(WrapInt(high - low) + 1)

\* the values of the value lines written so far, in order
RECURSIVE Values(_)
Values(lines) ==
    IF lines = << >> THEN << >>
    ELSE IF lines[1].kind = "value" THEN <<lines[1].n>> \o Values(Tail(lines))
    ELSE Values(Tail(lines))

Kinds(lines) == [k \in 1..Len(lines) |-> lines[k].kind]

Ops == [k \in 1..Len(log) |-> log[k].op]

Repeat(x, n) == [k \in 1..n |-> x]

Draws == {k \in 1..Len(log) : log[k].op \in {"rand", "rand_range"}}

Seedings == {k \in 1..Len(log) : log[k].op = "srand"}

-----------------------------------------------------------------------------
(* rand_range: the claims checked under RangeSpec *)

\* C1: for low <= high and every draw r, rand_range(low, high) returns a
\* value v with low <= v <= high.
C1_ResultInInterval ==
    (Called /\ low <= high) =>
        (pc = "returned" /\ low <= random /\ random <= high)

C3_SinglePoint ==
    (Called /\ low = high) => (pc = "returned" /\ random = low)

C3_SinglePointAtIntMax ==
    pc = "returned" /\ low = INT_MAX /\ high = INT_MAX /\ Drawn = RAND_MAX

\* C8: a call with low <= high makes exactly one draw r, which becomes the
\* generator's seed, and returns exactly (r mod (high - low + 1)) + low.
C8_OneDrawAndFormula ==
    (Called /\ low <= high) =>
        /\ Len(log) = 1
        /\ g = Drawn
        /\ pc = "returned"
        /\ random = (Drawn % TrueSize) + low

\* C9: for low = 20, high = 30 every call returns a value in 20..30, and each
\* of the 11 values is what the call returns for some draw r in 0..RAND_MAX,
\* every one of which the generator can make.
C9_CoversTwentyToThirty ==
    (low = 20 /\ high = 30) =>
        /\ Called => (pc = "returned" /\ random \in 20..30)
        /\ UNION {rand_range(low, high, r) : r \in 0..RAND_MAX}
              = {Outcome("value", v) : v \in 20..30}
        /\ {rand(seed) : seed \in 0..RAND_MAX} = 0..RAND_MAX

C9_ReturnsThirty ==
    pc = "returned" /\ low = 20 /\ high = 30 /\ random = 30

\* C10: when low <= high and the true size high - low + 1 is at most INT_MAX,
\* no subexpression of rand_range leaves the int range (the call neither
\* traps on overflow nor divides by zero), and the value returned is the
\* integer (r mod size) + low.
C10_NoOverflowWithinIntSize ==
    (low <= high /\ TrueSize <= INT_MAX) =>
        /\ high - low \in IntValues
        /\ TrueSize \in IntValues
        /\ Called =>
              /\ pc = "returned"
              /\ Drawn % TrueSize \in IntValues
              /\ (Drawn % TrueSize) + low \in IntValues
              /\ random = (Drawn % TrueSize) + low

\* the largest size that is an int, at the bottom of the int range
C10_LargestSize ==
    pc = "returned" /\ low = INT_MIN /\ TrueSize = INT_MAX /\ Drawn = RAND_MAX

-----------------------------------------------------------------------------
(* main: the claims checked under Spec and FairSpec *)

\* C4: the generator is seeded exactly once, before the first draw: the
\* first library call is srand, no later call is, and no statement after the
\* first runs unseeded.
C4_SeededOnceBeforeDraws ==
    /\ Cardinality(Seedings) <= 1
    /\ \A k \in Draws : \E s \in Seedings : s < k
    /\ pc # "srand" => Cardinality(Seedings) = 1

C4_SeededRunEnded ==
    pc = "done" /\ Seedings = {1} /\ Cardinality(Draws) = 2 * REPETITIONS

\* C5, as claimed: a full run writes exactly 2 * REPETITIONS + 2 lines.
C5_TwoHeadersAndValues ==
    pc = "done" => Len(out) = 2 * REPETITIONS + 2

\* C5, as amended: a full run writes exactly 2 * REPETITIONS + 4 lines: each
\* of the two blocks is an empty line, a header line and REPETITIONS value
\* lines, which leaves 2 * REPETITIONS + 2 lines that are not empty.
C5_BlankHeaderValuesTwice ==
    pc = "done" =>
        /\ Len(out) = 2 * REPETITIONS + 4
        /\ Kinds(out) = <<"blank", "header">> \o Repeat("value", REPETITIONS)
                          \o <<"blank", "header">> \o Repeat("value", REPETITIONS)
        /\ Cardinality({k \in 1..Len(out) : out[k] # BlankLine})
              = 2 * REPETITIONS + 2

C5_RunEndedWithOutput ==
    pc = "done" /\ out[1] = BlankLine /\ out[REPETITIONS + 3] = BlankLine

\* C6: the draws depend on the seed alone: the k-th draw of a run is the
\* k-th iterate of rand() from the seed srand was given, and the value lines
\* written are those draws, the ones of the second block mapped by rand_range.
C6_DrawsDeterminedBySeed ==
    Seedings # {} =>
        LET seed == srand(log[1].val)
        IN  /\ \A k \in Draws : log[k].val = NthRand(seed, k - 1)
            /\ \A k \in 1..Len(Values(out)) :
                  IF k <= REPETITIONS
                  THEN Values(out)[k] = NthRand(seed, k)
                  ELSE rand_range(200, 300, NthRand(seed, k))
                          = {Outcome("value", Values(out)[k])}

C6_SeededFromWrappedClock ==
    /\ pc = "done"
    /\ log[1] = Event("srand", IntOfTime(INT_MAX + 2))
    /\ Len(Values(out)) = 2 * REPETITIONS

\* What C7 says of every state of a run: the run has not ended abnormally; no
\* range-mapped draw precedes an unranged one; neither kind is drawn more
\* than REPETITIONS times; the value drawn is written before the next draw;
\* the range-mapped draws are over [200, 300]; and a run that has ended made
\* exactly REPETITIONS draws of each kind and wrote each of them.
C7_Order ==
    /\ pc \notin {"sigfpe", "abort"}
    /\ \A j, k \in Draws :
          (log[j].op = "rand_range" /\ log[k].op = "rand") => k < j
    /\ Cardinality({k \in Draws : log[k].op = "rand"}) <= REPETITIONS
    /\ Cardinality({k \in Draws : log[k].op = "rand_range"}) <= REPETITIONS
    /\ Len(Values(out)) \in {Cardinality(Draws) - 1, Cardinality(Draws)}
    /\ pc \in {"rand", "rand_range"} => Len(Values(out)) = Cardinality(Draws)
    /\ pc \in {"output1", "output2"} =>
          /\ Len(Values(out)) = Cardinality(Draws) - 1
          /\ random = IF pc = "output1" THEN Drawn
                      ELSE (Drawn % (300 - 200 + 1)) + 200
    /\ \A k \in Draws : log[k].op = "rand_range" =>
          (low = 200 /\ high = 300)
    /\ pc = "done" =>
          /\ Ops = <<"srand">> \o Repeat("rand", REPETITIONS)
                      \o Repeat("rand_range", REPETITIONS)
          /\ Len(Values(out)) = 2 * REPETITIONS
          /\ \A k \in 1..REPETITIONS : Values(out)[k] = log[k + 1].val
          /\ \A k \in (REPETITIONS + 1)..(2 * REPETITIONS) :
                Values(out)[k] = (log[k + 1].val % (300 - 200 + 1)) + 200

\* C7: every run ends normally with both blocks written, after exactly
\* REPETITIONS unranged draws followed by exactly REPETITIONS range-mapped
\* draws over [200, 300]; no range-mapped draw precedes the last unranged
\* one, and each value drawn is written before the next draw is made.
C7_RunsToCompletion == [](C7_Order) /\ <>(pc = "done")

C7_RunEndedInOrder ==
    /\ pc = "done"
    /\ log[REPETITIONS + 1].op = "rand"
    /\ log[REPETITIONS + 2].op = "rand_range"
    /\ out[Len(out)] = ValueLine(random)

=============================================================================
